---- MODULE Spec2Model ----
(***************************************************************************)
(* Model of the video-tools repository: the merge tool (tools/merge_vid.py) *)
(* as a state machine over one run of main, with the pure helpers of the    *)
(* module as operators (Spec, SpecScan), run_ffmpeg line by line (SpecRun),  *)
(* the tabs and workers of the GUI in main.py (SpecGui), and one run of      *)
(* rotate_vid.main or aspect_ratio.main (SpecRotate).  Each specification    *)
(* holds the variables of the others at their idle values.                   *)
(* Strings that the code inspects character by                               *)
(* character (file names, codec names, resolution strings, ffprobe output)  *)
(* are sequences of one-character strings; strings the code only passes on  *)
(* (presets, log lines, messages) are TLA+ strings.  Python's None is <<>>   *)
(* and a present value x is <<x>>.                                          *)
(***************************************************************************)
EXTENDS Integers, Sequences, FiniteSets, TLC

VARIABLES
    pc,                \* position of main: "start", "probing", "encoding", "done"; "scan"/"scanned" in SpecScan
    args,              \* argparse namespace: input_folder, output_folder, codec, preset, fallback_codec, resolution
    path_missing,      \* the executables shutil.which does not find
    input_is_dir,      \* input_dir.exists() and input_dir.is_dir()
    folder,            \* directory listing of the input folder: set of [name, is_file]
    output_file,       \* what is at derive_output_path(...): "absent", "old", "partial", "merged"
    startup,           \* what main has called before probing, in call order
    output_dir_made,   \* output_dir.mkdir has run
    videos,            \* find_numbered_videos(input_dir)
    probed,            \* ffprobe processes run so far: <<[video, rc, stdout]>>
    reference,         \* detect_uniform_resolution's reference
    uniform_resolution,
    target_resolution,
    manifest,          \* the concat temp file on disk: None when absent, <<lines>> when present
    manifest_made,     \* build_concat_file has returned in this run
    codecs_to_try,
    codec_index,       \* position of the outer loop of main (0-based, as enumerate)
    scale_pos,         \* position of the inner loop in scale_modes (1-based)
    attempts,          \* ffmpeg processes run so far, with the candidate each ran and how it ended
    last_error,
    result,            \* how main ended: None while running, else <<[kind, ...]>>
    \* The GUI (main.py): the tabs of MainWindow and their workers.
    tabs,              \* per tab: its controls, its worker and what that worker has done
    app_running,       \* the application process is alive
    \* One run of rotate_vid.main or aspect_ratio.main.
    rot_pc,            \* "start", "loop", "ffmpeg" (the child is writing), "done"
    rot_args,          \* tool, the videos of the folder arguments, --video-file, --output-folder
    rot_videos,        \* the list main processes
    rot_index,         \* videos main is done with
    files,             \* path -> what the file holds; a path without a file is not in the domain
    rot_started,       \* the videos rotate_video was called with, in order
    rot_result,        \* how main ended
    \* One call of run_ffmpeg.
    run_pc,            \* "popen", "reading", "returned"
    child,             \* the child process: the lines it writes and its exit status
    lines_read,        \* lines taken from proc.stdout so far
    run_log_tail,      \* the deque log_tail
    stdout,            \* sys.stdout: the lines written, and how many of them are flushed
    run_result,        \* what run_ffmpeg returned
    \* One call of resolve_preset followed by build_ffmpeg_command.
    build_pc,          \* "args", "preset", "built"
    build_args,        \* codec, explicit preset, resolution, use_cuda_scale
    build_preset,      \* what resolve_preset returned
    build_cmd          \* what build_ffmpeg_command returned

mainVars == << pc, args, path_missing, input_is_dir, folder, output_file, startup,
               output_dir_made, videos, probed, reference,
               uniform_resolution, target_resolution, manifest, manifest_made,
               codecs_to_try, codec_index, scale_pos, attempts, last_error, result >>
guiVars == << tabs, app_running >>
rotVars == << rot_pc, rot_args, rot_videos, rot_index, rot_started, files, rot_result >>
runVars == << run_pc, child, lines_read, run_log_tail, stdout, run_result >>

buildVars == << build_pc, build_args, build_preset, build_cmd >>

vars == << mainVars, guiVars, rotVars, runVars, buildVars >>

None == << >>
Some(x) == << x >>

(***************************************************************************)
(* Bounds of the model.                                                     *)
(***************************************************************************)
MaxFiles == 3        \* entries in the input folder of a main run
MaxScanFiles == 3    \* entries in the folder of a find_numbered_videos run
MaxLines == 22       \* lines the child of a run_ffmpeg call writes

(***************************************************************************)
(* Characters.                                                              *)
(***************************************************************************)
Digits == {"0", "1", "2", "3", "4", "5", "6", "7", "8", "9"}
Whitespace == {" ", "\n", "\r", "\t"}

\* Code point of the characters the names of the model use (str comparison).
Ord(c) ==
    CASE c = "'" -> 39 [] c = "." -> 46
      [] c = "0" -> 48 [] c = "1" -> 49 [] c = "2" -> 50 [] c = "3" -> 51
      [] c = "4" -> 52 [] c = "5" -> 53 [] c = "6" -> 54 [] c = "7" -> 55
      [] c = "8" -> 56 [] c = "9" -> 57
      [] c = "S" -> 83 [] c = "T" -> 84
      [] c = "a" -> 97 [] c = "b" -> 98 [] c = "c" -> 99 [] c = "d" -> 100
      [] c = "e" -> 101 [] c = "f" -> 102 [] c = "m" -> 109 [] c = "s" -> 115
      [] c = "t" -> 116 [] c = "x" -> 120 [] c = "y" -> 121

DigitValue(c) == Ord(c) - 48

\* str.lower on one character.
LowerChar(c) ==
    CASE c = "C" -> "c" [] c = "E" -> "e" [] c = "F" -> "f" [] c = "H" -> "h"
      [] c = "N" -> "n" [] c = "O" -> "o" [] c = "S" -> "s" [] c = "T" -> "t"
      [] c = "V" -> "v" [] OTHER -> c

Lower(s) == [i \in 1..Len(s) |-> LowerChar(s[i])]

\* Python's str < str: lexicographic by code point, a proper prefix is smaller.
RECURSIVE StrLess(_, _)
StrLess(s, t) ==
    IF t = << >> THEN FALSE
    ELSE IF s = << >> THEN TRUE
    ELSE IF Head(s) = Head(t) THEN StrLess(Tail(s), Tail(t))
    ELSE Ord(Head(s)) < Ord(Head(t))

\* int() of a non-empty run of decimal digits.
RECURSIVE DigitsToInt(_)
DigitsToInt(s) ==
    IF s = << >> THEN 0
    ELSE 10 * DigitsToInt(SubSeq(s, 1, Len(s) - 1)) + DigitValue(s[Len(s)])

AllDigits(s) == \A i \in 1..Len(s) : s[i] \in Digits

(***************************************************************************)
(* pathlib: suffix and stem of a file name.                                 *)
(***************************************************************************)
\* name.rfind("."): 0 when there is no dot (positions are 1-based here).
LastDot(name) ==
    IF \E i \in 1..Len(name) : name[i] = "."
    THEN CHOOSE i \in 1..Len(name) :
            /\ name[i] = "."
            /\ \A j \in (i + 1)..Len(name) : name[j] # "."
    ELSE 0

HasSuffix(name) == LastDot(name) > 1 /\ LastDot(name) < Len(name)

Suffix(name) ==
    IF HasSuffix(name) THEN SubSeq(name, LastDot(name), Len(name)) ELSE << >>

Stem(name) ==
    IF HasSuffix(name) THEN SubSeq(name, 1, LastDot(name) - 1) ELSE name

\* The members of VIDEO_EXTENSIONS the names of the model can have.
VIDEO_EXTENSIONS == { << ".", "t", "s" >>, << ".", "m", "t", "s" >> }

(***************************************************************************)
(* extract_sequence_number: SEQUENCE_REGEX = (0\d{3,}), findall, last match. *)
(***************************************************************************)
\* End of the greedy run of digits that starts at position i.
RECURSIVE DigitRunEnd(_, _)
DigitRunEnd(s, i) ==
    IF i < Len(s) /\ s[i + 1] \in Digits THEN DigitRunEnd(s, i + 1) ELSE i

\* The regex matches at i: a "0" followed by at least three digits.
MatchesAt(s, i) ==
    /\ s[i] = "0"
    /\ i + 3 <= Len(s)
    /\ \A k \in 1..3 : s[i + k] \in Digits

\* re.findall: non-overlapping matches, scanning left to right from i.
RECURSIVE FindAll(_, _)
FindAll(s, i) ==
    IF i > Len(s) THEN << >>
    ELSE IF MatchesAt(s, i)
         THEN << SubSeq(s, i, DigitRunEnd(s, i)) >> \o FindAll(s, DigitRunEnd(s, i) + 1)
         ELSE FindAll(s, i + 1)

extract_sequence_number(stem) ==
    LET found == FindAll(stem, 1)
    IN  IF found = << >> THEN None ELSE Some(DigitsToInt(found[Len(found)]))

(***************************************************************************)
(* find_numbered_videos.                                                    *)
(***************************************************************************)
\* sorted(folder.iterdir()): the entries of one folder ordered by name.
RECURSIVE SortedEntries(_)
SortedEntries(S) ==
    IF S = {} THEN << >>
    ELSE LET first == CHOOSE e \in S : \A o \in S \ {e} : StrLess(e.name, o.name)
         IN  << first >> \o SortedEntries(S \ {first})

\* The three filters of the loop body.
IsNumberedVideo(entry) ==
    /\ entry.is_file
    /\ Lower(Suffix(entry.name)) \in VIDEO_EXTENSIONS
    /\ extract_sequence_number(Stem(entry.name)) # None

\* key=lambda item: (item[0], item[1].name), compared as tuples.
KeyLess(a, b) ==
    LET na == extract_sequence_number(Stem(a.name))[1]
        nb == extract_sequence_number(Stem(b.name))[1]
    IN  na < nb \/ (na = nb /\ StrLess(a.name, b.name))

\* A mutant: the matches are left in directory (name) order.
find_numbered_videos_unsorted(dir) ==
    SelectSeq(SortedEntries(dir), IsNumberedVideo)

find_numbered_videos(dir) ==
    SortSeq(SelectSeq(SortedEntries(dir), IsNumberedVideo), KeyLess)

(***************************************************************************)
(* parse_resolution, probe_video_resolution.                                *)
(***************************************************************************)
\* str.strip(): leading and trailing whitespace removed.
RECURSIVE Strip(_)
Strip(s) ==
    IF s = << >> THEN s
    ELSE IF Head(s) \in Whitespace THEN Strip(Tail(s))
    ELSE IF s[Len(s)] \in Whitespace THEN Strip(SubSeq(s, 1, Len(s) - 1))
    ELSE s

Ok(v) == [ok |-> TRUE, value |-> v, error |-> ""]
Err(e) == [ok |-> FALSE, value |-> << >>, error |-> e]

\* re.fullmatch(r"(\d+)x(\d+)", resolution): the position of the "x", 0 when no match.
MatchResolution(s) ==
    LET xs == { i \in 2..(Len(s) - 1) :
                  /\ s[i] = "x"
                  /\ AllDigits(SubSeq(s, 1, i - 1))
                  /\ AllDigits(SubSeq(s, i + 1, Len(s))) }
    IN  IF xs = {} THEN 0 ELSE CHOOSE i \in xs : TRUE

\* A mutant: the check that both values are positive is missing.
parse_resolution_unchecked(resolution) ==
    LET m == MatchResolution(resolution)
    IN  IF m = 0 THEN Err("Resolution must be formatted as WIDTHxHEIGHT")
        ELSE Ok(<< DigitsToInt(SubSeq(resolution, 1, m - 1)),
                   DigitsToInt(SubSeq(resolution, m + 1, Len(resolution))) >>)

parse_resolution(resolution) ==
    LET m == MatchResolution(resolution)
        width == DigitsToInt(SubSeq(resolution, 1, m - 1))
        height == DigitsToInt(SubSeq(resolution, m + 1, Len(resolution)))
    IN  IF m = 0 THEN Err("Resolution must be formatted as WIDTHxHEIGHT")
        ELSE IF width <= 0 \/ height <= 0
             THEN Err("Resolution values must be positive")
             ELSE Ok(<< width, height >>)

\* proc is the finished ffprobe process: [rc, stdout].
probe_video_resolution(proc) ==
    IF proc.rc # 0
    THEN Err("Unable to detect source video resolution via ffprobe")
    ELSE IF parse_resolution(Strip(proc.stdout)).ok
         THEN parse_resolution(Strip(proc.stdout))
         ELSE Err("ffprobe returned unexpected resolution")

(***************************************************************************)
(* build_concat_file.                                                       *)
(***************************************************************************)
\* str.replace("'", "'\\''") on a path.
RECURSIVE EscapeQuotes(_)
EscapeQuotes(s) ==
    IF s = << >> THEN << >>
    ELSE (IF Head(s) = "'" THEN << "'", "\\", "'", "'" >> ELSE << Head(s) >>)
         \o EscapeQuotes(Tail(s))

\* f"file '{escaped}'\n"; the path is the file name, the folder part being the
\* same for every video of a run.
ConcatLine(video) ==
    << "f", "i", "l", "e", " ", "'" >> \o EscapeQuotes(video.name) \o << "'", "\n" >>

\* A mutant: the manifest is written from the last video to the first.
build_concat_file_reversed(vids) ==
    [i \in 1..Len(vids) |-> ConcatLine(vids[Len(vids) + 1 - i])]

\* The lines written to the temp file, one write per video.
build_concat_file(vids) ==
    [i \in 1..Len(vids) |-> ConcatLine(vids[i])]

(***************************************************************************)
(* Codecs: normalize_fallback_codec and the loop header of main.            *)
(***************************************************************************)
NVENC_SUFFIX == << "_", "n", "v", "e", "n", "c" >>

\* str.endswith
EndsWith(s, suffix) ==
    /\ Len(s) >= Len(suffix)
    /\ SubSeq(s, Len(s) - Len(suffix) + 1, Len(s)) = suffix

\* codec_name.lower().endswith("_nvenc")
IsCudaCodec(codec) == EndsWith(Lower(codec), NVENC_SUFFIX)

\* {"", "none", "false", "off"}
DISABLING_VALUES ==
    { << >>, << "n", "o", "n", "e" >>, << "f", "a", "l", "s", "e" >>, << "o", "f", "f" >> }

\* value is Optional[str]: None or Some(string).
normalize_fallback_codec(value) ==
    IF value = None THEN None
    ELSE IF Lower(Strip(value[1])) \in DISABLING_VALUES THEN None
    ELSE value

\* codecs_to_try of main, from the parsed arguments.
CodecsToTry(a) ==
    LET fallback_codec == normalize_fallback_codec(Some(a.fallback_codec))
    IN  IF fallback_codec # None /\ fallback_codec[1] # << >>
           /\ fallback_codec[1] # a.codec
        THEN << a.codec, fallback_codec[1] >>
        ELSE << a.codec >>

\* A mutant: hardware scaling is offered for every codec.
ScaleModesAlwaysCuda(codec_name, resolution) ==
    IF resolution # None THEN << TRUE, FALSE >> ELSE << FALSE >>

\* scale_modes of main: prefer_cuda_scale = bool(target_resolution) and use_cuda_codec.
ScaleModes(codec_name, resolution) ==
    IF resolution # None /\ IsCudaCodec(codec_name)
    THEN << TRUE, FALSE >>
    ELSE << FALSE >>

\* A mutant: a hardware codec gets p4 whatever was asked for.
resolve_preset_hardware_first(codec, explicit) ==
    IF IsCudaCodec(codec) THEN Some("p4")
    ELSE IF explicit # None /\ explicit[1] # "" THEN explicit
    ELSE None

\* resolve_preset; explicit is Optional[str], "" is falsy.
resolve_preset(codec, explicit) ==
    IF explicit # None /\ explicit[1] # "" THEN explicit
    ELSE IF IsCudaCodec(codec) THEN Some("p4")
    ELSE None

(***************************************************************************)
(* The ffmpeg command.  A filter graph is the sequence of its filters, each  *)
(* a tuple that starts with the filter's name; a command is the sequence of  *)
(* its arguments, each a tuple <<kind, value>>.                              *)
(***************************************************************************)
\* pad={width}:{height}:(ow-iw)/2:(oh-ih)/2
PadFilter(width, height) == << "pad", width, height, "(ow-iw)/2", "(oh-ih)/2" >>

\* scale_cuda=w='if(gt(iw/ih,{aspect_ratio}),{width},-2)':h='if(gt(iw/ih,{aspect_ratio}),-2,{height})'
\* with aspect_ratio = width / height, kept as the pair it is computed from.
ScaleCudaFilter(width, height) == << "scale_cuda", << width, height >>, width, height >>

\* scale={width}:{height}:force_original_aspect_ratio=decrease
ScaleFilter(width, height) == << "scale", width, height, "force_original_aspect_ratio=decrease" >>

\* A mutant: without a resolution the software graph for 1920x1080 is built.
build_resize_filter_defaulted(resolution, use_cuda_scale) ==
    LET width == IF resolution = None THEN 1920 ELSE resolution[1][1]
        height == IF resolution = None THEN 1080 ELSE resolution[1][2]
    IN  IF use_cuda_scale /\ resolution # None
        THEN [graph |-> Some(<< ScaleCudaFilter(width, height), << "hwdownload" >>,
                                << "format", "nv12" >>, PadFilter(width, height),
                                << "format", "yuv420p" >>, << "setsar", 1 >> >>),
              needs_hw_frames |-> TRUE]
        ELSE [graph |-> Some(<< ScaleFilter(width, height), PadFilter(width, height),
                                << "setsar", 1 >> >>),
              needs_hw_frames |-> FALSE]

\* A mutant: the software graph scales without padding.
build_resize_filter_unpadded(resolution, use_cuda_scale) ==
    IF resolution = None THEN [graph |-> None, needs_hw_frames |-> FALSE]
    ELSE LET width == resolution[1][1]
             height == resolution[1][2]
         IN  IF use_cuda_scale
             THEN [graph |-> Some(<< ScaleCudaFilter(width, height), << "hwdownload" >>,
                                     << "format", "nv12" >>, PadFilter(width, height),
                                     << "format", "yuv420p" >>, << "setsar", 1 >> >>),
                   needs_hw_frames |-> TRUE]
             ELSE [graph |-> Some(<< ScaleFilter(width, height), << "setsar", 1 >> >>),
                   needs_hw_frames |-> FALSE]

\* resolution is Optional[(width, height)]; returns (filter graph, needs hardware frames).
build_resize_filter(resolution, use_cuda_scale) ==
    IF resolution = None THEN [graph |-> None, needs_hw_frames |-> FALSE]
    ELSE LET width == resolution[1][1]
             height == resolution[1][2]
         IN  IF use_cuda_scale
             THEN [graph |-> Some(<< ScaleCudaFilter(width, height), << "hwdownload" >>,
                                     << "format", "nv12" >>, PadFilter(width, height),
                                     << "format", "yuv420p" >>, << "setsar", 1 >> >>),
                   needs_hw_frames |-> TRUE]
             ELSE [graph |-> Some(<< ScaleFilter(width, height), PadFilter(width, height),
                                     << "setsar", 1 >> >>),
                   needs_hw_frames |-> FALSE]

\* A literal argument of the command.
Lit(s) == << "lit", s >>

\* A mutant: the hardware flags follow the input.
build_ffmpeg_command_hwaccel_late(concat_file, output_path, codec, preset, resolution, use_cuda_scale) ==
    LET use_cuda_codec == IsCudaCodec(codec)
        filter == build_resize_filter(resolution, use_cuda_scale)
        needs_hw_frames == use_cuda_codec /\ filter.needs_hw_frames
    IN  << Lit("ffmpeg"), Lit("-y"), Lit("-hide_banner"), Lit("-loglevel"), Lit("info") >>
        \o << Lit("-f"), Lit("concat"), Lit("-safe"), Lit("0"), Lit("-i"),
              << "concat_file", concat_file >> >>
        \o (IF use_cuda_codec THEN << Lit("-hwaccel"), Lit("cuda") >> ELSE << >>)
        \o (IF needs_hw_frames THEN << Lit("-hwaccel_output_format"), Lit("cuda") >> ELSE << >>)
        \o << Lit("-c:v"), << "codec", codec >> >>
        \o (IF preset # None /\ preset[1] # "" THEN << Lit("-preset"), Lit(preset[1]) >> ELSE << >>)
        \o (IF filter.graph # None /\ filter.graph[1] # << >>
            THEN << Lit("-vf"), << "filter_graph", filter.graph[1] >> >> ELSE << >>)
        \o (IF ~use_cuda_codec THEN << Lit("-pix_fmt"), Lit("yuv420p") >> ELSE << >>)
        \o << Lit("-c:a"), Lit("copy"), << "path", output_path >> >>

\* The argument list of one encode attempt.
build_ffmpeg_command(concat_file, output_path, codec, preset, resolution, use_cuda_scale) ==
    LET use_cuda_codec == IsCudaCodec(codec)
        filter == build_resize_filter(resolution, use_cuda_scale)
        needs_hw_frames == use_cuda_codec /\ filter.needs_hw_frames
    IN  << Lit("ffmpeg"), Lit("-y"), Lit("-hide_banner"), Lit("-loglevel"), Lit("info") >>
        \o (IF use_cuda_codec THEN << Lit("-hwaccel"), Lit("cuda") >> ELSE << >>)
        \o (IF needs_hw_frames THEN << Lit("-hwaccel_output_format"), Lit("cuda") >> ELSE << >>)
        \o << Lit("-f"), Lit("concat"), Lit("-safe"), Lit("0"), Lit("-i"),
              << "concat_file", concat_file >>, Lit("-c:v"), << "codec", codec >> >>
        \o (IF preset # None /\ preset[1] # "" THEN << Lit("-preset"), Lit(preset[1]) >> ELSE << >>)
        \o (IF filter.graph # None /\ filter.graph[1] # << >>
            THEN << Lit("-vf"), << "filter_graph", filter.graph[1] >> >> ELSE << >>)
        \o (IF ~use_cuda_codec THEN << Lit("-pix_fmt"), Lit("yuv420p") >> ELSE << >>)
        \o << Lit("-c:a"), Lit("copy"), << "path", output_path >> >>

\* output_folder / f"{input_folder.resolve().name}.mp4"; a folder is the
\* sequence of the components of its resolved path.
derive_output_path(input_folder, output_folder) ==
    [parent |-> output_folder,
     name |-> input_folder[Len(input_folder)] \o << ".", "m", "p", "4" >>]

\* A mutant: only ffmpeg is looked up.
ensure_ffmpeg_available_ffmpeg_only(not_found) ==
    LET missing == SelectSeq(<< "ffmpeg" >>, LAMBDA tool : tool \in not_found)
    IN  IF missing # << >>
        THEN Err("executable(s) not found in PATH")
        ELSE Ok(None)

\* not_found: the tools for which shutil.which returns None.
ensure_ffmpeg_available(not_found) ==
    LET missing == SelectSeq(<< "ffmpeg", "ffprobe" >>, LAMBDA tool : tool \in not_found)
    IN  IF missing # << >>
        THEN Err("executable(s) not found in PATH")
        ELSE Ok(None)

(***************************************************************************)
(* run_ffmpeg: the tail kept of the lines the child wrote.                  *)
(***************************************************************************)
FFMPEG_LOG_TAIL_LINES == 20

\* deque(maxlen=FFMPEG_LOG_TAIL_LINES) after appending every line.
LogTail(lines) ==
    IF Len(lines) <= FFMPEG_LOG_TAIL_LINES THEN lines
    ELSE SubSeq(lines, Len(lines) - FFMPEG_LOG_TAIL_LINES + 1, Len(lines))

(***************************************************************************)
(* The inputs of a run: arguments, folder contents, process outcomes.       *)
(***************************************************************************)
File(n) == [name |-> n, is_file |-> TRUE]
Dir(n) == [name |-> n, is_file |-> FALSE]

\* Folder entries of a main run: "a0002.ts", "b0001.TS", "c'0003.ts", "d123.ts".
MainPool ==
    { File(<< "a", "0", "0", "0", "2", ".", "t", "s" >>),
      File(<< "b", "0", "0", "0", "1", ".", "T", "S" >>),
      File(<< "c", "'", "0", "0", "0", "3", ".", "t", "s" >>),
      File(<< "d", "1", "2", "3", ".", "t", "s" >>) }

\* Further entries for find_numbered_videos alone: "c0001.ts", "e0004.txt",
\* a directory "f0005.ts", "a0009b0001.ts", "00012.ts", "a10002.mts".
ScanPool ==
    MainPool \cup
    { File(<< "c", "0", "0", "0", "1", ".", "t", "s" >>),
      File(<< "e", "0", "0", "0", "4", ".", "t", "x", "t" >>),
      Dir(<< "f", "0", "0", "0", "5", ".", "t", "s" >>),
      File(<< "a", "0", "0", "0", "9", "b", "0", "0", "0", "1", ".", "t", "s" >>),
      File(<< "0", "0", "0", "1", "2", ".", "t", "s" >>),
      File(<< "a", "1", "0", "0", "0", "2", ".", "m", "t", "s" >>) }

Folders(pool, max) == { S \in SUBSET pool : Cardinality(S) <= max }

h264_nvenc == << "h", "2", "6", "4" >> \o NVENC_SUFFIX
HEVC_NVENC == << "H", "E", "V", "C", "_", "N", "V", "E", "N", "C" >>
libx264 == << "l", "i", "b", "x", "2", "6", "4" >>

\* --codec and --fallback-codec values: the defaults, an upper-case hardware
\* codec, the primary again, " None" and the empty string.
CodecArgs == { h264_nvenc, libx264 }
FallbackArgs == { libx264, HEVC_NVENC, h264_nvenc, << " ", "N", "o", "n", "e" >>, << >> }

\* --resolution values: "1920x1080" (the default), "0x1080", "1080".
ResolutionArgs ==
    { << "1", "9", "2", "0", "x", "1", "0", "8", "0" >>,
      << "0", "x", "1", "0", "8", "0" >>,
      << "1", "0", "8", "0" >> }

PresetArgs == { None, Some("slow") }

\* The folders of the run, resolved: "/shoot/day1" and "/out".
InputFolderArgs == { << "shoot", << "d", "a", "y", "1" >> >> }
OutputFolderArgs == { << "out" >> }

ArgSets ==
    [ input_folder : InputFolderArgs, output_folder : OutputFolderArgs,
      codec : CodecArgs, fallback_codec : FallbackArgs,
      resolution : ResolutionArgs, preset : PresetArgs ]

\* What one ffprobe process can answer: "2x1\n", "4x3\n", "0x1\n", "N/A\n", or a failure.
ProbeOutcomes ==
    { [rc |-> 0, stdout |-> << "2", "x", "1", "\n" >>],
      [rc |-> 0, stdout |-> << "4", "x", "3", "\n" >>],
      [rc |-> 0, stdout |-> << "0", "x", "1", "\n" >>],
      [rc |-> 0, stdout |-> << "N", "/", "A", "\n" >>],
      [rc |-> 1, stdout |-> << >>] }

\* What one ffmpeg process can do: exit with a status after writing some lines.
ExitCodes == { 0, 1, -9 }
OutputLines == { << >>, << "frame=1", "error" >> }

Returned(text) ==
    Some([kind |-> "return", exc |-> "", msg |-> text, return_code |-> 0, log_tail |-> << >>])
Raised(e, text) ==
    Some([kind |-> "raise", exc |-> e, msg |-> text, return_code |-> 0, log_tail |-> << >>])
RaisedEncodeFailed(err) ==
    Some([kind |-> "raise", exc |-> "RuntimeError", msg |-> "ffmpeg failed with exit code",
          return_code |-> err.return_code, log_tail |-> err.log_tail])

(***************************************************************************)
(* One run of merge_vid.main.                                               *)
(***************************************************************************)
Blank ==
    /\ startup = << >>
    /\ output_dir_made = FALSE
    /\ videos = << >>
    /\ probed = << >>
    /\ reference = None
    /\ uniform_resolution = None
    /\ target_resolution = None
    /\ manifest = None
    /\ manifest_made = FALSE
    /\ codecs_to_try = << >>
    /\ codec_index = 0
    /\ scale_pos = 1
    /\ attempts = << >>
    /\ last_error = None
    /\ result = None

\* No run of merge_vid.main.
MainIdle ==
    /\ pc = "idle"
    /\ args = << >>
    /\ path_missing = {}
    /\ input_is_dir = FALSE
    /\ folder = {}
    /\ output_file = "absent"
    /\ Blank

\* No call of the command builder on its own.
BuildIdle ==
    /\ build_pc = "idle"
    /\ build_args = << >>
    /\ build_preset = None
    /\ build_cmd = << >>

\* The GUI, with no worker started.
GuiIdle ==
    /\ tabs = << >>
    /\ app_running = FALSE

\* No run of rotate_vid or aspect_ratio.
RotIdle ==
    /\ rot_pc = "idle"
    /\ rot_args = << >>
    /\ rot_videos = << >>
    /\ rot_index = 0
    /\ rot_started = << >>
    /\ files = << >>
    /\ rot_result = None

\* No call of run_ffmpeg on its own.
RunIdle ==
    /\ run_pc = "idle"
    /\ child = << >>
    /\ lines_read = 0
    /\ run_log_tail = << >>
    /\ stdout = << >>
    /\ run_result = None

Init ==
    /\ GuiIdle /\ RotIdle /\ RunIdle /\ BuildIdle
    /\ pc = "start"
    /\ args \in ArgSets
    /\ path_missing \in SUBSET { "ffmpeg", "ffprobe" }
    /\ input_is_dir \in BOOLEAN
    /\ folder \in Folders(MainPool, MaxFiles)
    /\ output_file \in { "absent", "old" }
    /\ Blank

\* A mutant: an empty catalogue is an error.
EmptyCatalogueRaises ==
    Raised("FileNotFoundError", "No video files matching the #### pattern were found.")

\* if not videos: print(...); return 0
EmptyCatalogue ==
    Returned("Info: No video files matching the #### pattern were found. Skipping.")

\* main up to the return for an empty catalogue.
Start ==
    /\ pc = "start"
    /\ UNCHANGED << guiVars, rotVars, runVars, buildVars >>
    /\ UNCHANGED << args, path_missing, input_is_dir, folder, output_file, probed,
                    reference, uniform_resolution, target_resolution, manifest,
                    manifest_made, codecs_to_try, codec_index, scale_pos, attempts,
                    last_error >>
    /\ LET tools == ensure_ffmpeg_available(path_missing)
       IN  IF ~tools.ok
           THEN /\ startup' = << "ensure_ffmpeg_available" >>
                /\ pc' = "done"
                /\ result' = Raised("RuntimeError", tools.error)
                /\ UNCHANGED << output_dir_made, videos >>
           ELSE IF ~input_is_dir
           THEN /\ startup' = << "ensure_ffmpeg_available", "input_dir.is_dir" >>
                /\ pc' = "done"
                /\ result' = Raised("FileNotFoundError", "Input folder does not exist or is not a directory")
                /\ UNCHANGED << output_dir_made, videos >>
           ELSE /\ startup' = << "ensure_ffmpeg_available", "input_dir.is_dir",
                                 "output_dir.mkdir", "find_numbered_videos" >>
                /\ output_dir_made' = TRUE
                /\ videos' = find_numbered_videos(folder)
                /\ IF videos' = << >>
                   THEN /\ pc' = "done"
                        /\ result' = EmptyCatalogue
                   ELSE /\ pc' = "probing"
                        /\ UNCHANGED result

\* A mutant: a mismatch does not end the loop, the first value is returned.
DetectNextNoMismatch(ref, current, last) ==
    IF ref = None
    THEN [returned |-> last, value |-> Some(current), reference |-> Some(current)]
    ELSE [returned |-> last, value |-> ref, reference |-> ref]

\* One iteration of the loop of detect_uniform_resolution on a probed value;
\* last: this was the last video, so falling through returns reference.
DetectNext(ref, current, last) ==
    IF ref = None
    THEN [returned |-> last, value |-> Some(current), reference |-> Some(current)]
    ELSE IF current # ref[1]
         THEN [returned |-> TRUE, value |-> None, reference |-> ref]
         ELSE [returned |-> last, value |-> ref, reference |-> ref]

\* A mutant: --resolution is the target whatever the clips are.
TargetResolutionFromFlag(uniform, a) == parse_resolution(a.resolution)

\* target_resolution of main
TargetResolution(uniform, a) ==
    IF uniform # None THEN Ok(uniform[1]) ELSE parse_resolution(a.resolution)

\* One ffprobe process, and when detect_uniform_resolution returns with it,
\* main up to the first encode attempt.
Probe ==
    /\ pc = "probing"
    /\ UNCHANGED << guiVars, rotVars, runVars, buildVars >>
    /\ UNCHANGED << args, path_missing, input_is_dir, folder, output_file, startup,
                    output_dir_made, videos, attempts, last_error >>
    /\ \E proc \in ProbeOutcomes :
        LET n == Len(probed) + 1
            current == probe_video_resolution(proc)
            step == DetectNext(reference, current.value, n = Len(videos))
            target == TargetResolution(step.value, args)
        IN  /\ probed' = Append(probed, [video |-> videos[n], rc |-> proc.rc,
                                         stdout |-> proc.stdout])
            /\ IF ~current.ok
               THEN /\ pc' = "done"
                    /\ result' = Raised("RuntimeError", current.error)
                    /\ UNCHANGED << reference, uniform_resolution, target_resolution,
                                    manifest, manifest_made, codecs_to_try,
                                    codec_index, scale_pos >>
               ELSE IF ~step.returned
               THEN /\ reference' = step.reference
                    /\ UNCHANGED << pc, result, uniform_resolution, target_resolution,
                                    manifest, manifest_made, codecs_to_try,
                                    codec_index, scale_pos >>
               ELSE /\ reference' = step.reference
                    /\ uniform_resolution' = step.value
                    /\ IF ~target.ok
                       THEN /\ pc' = "done"
                            /\ result' = Raised("ValueError", target.error)
                            /\ UNCHANGED << target_resolution, manifest, manifest_made,
                                            codecs_to_try, codec_index, scale_pos >>
                       ELSE /\ target_resolution' = Some(target.value)
                            /\ manifest' = Some(build_concat_file(videos))
                            /\ manifest_made' = TRUE
                            /\ codecs_to_try' = CodecsToTry(args)
                            /\ codec_index' = 0
                            /\ scale_pos' = 1
                            /\ pc' = "encoding"
                            /\ UNCHANGED result

\* A mutant: every exit status that is not positive counts as success.
SucceededNonPositive(return_code) == return_code <= 0

\* if return_code == 0
Succeeded(return_code) == return_code = 0

\* A mutant: a failed attempt is not recorded.
NextLastErrorDropped(prev, return_code, log_tail) == None

\* A mutant: the first failure is kept.
NextLastErrorFirst(prev, return_code, log_tail) ==
    IF prev = None
    THEN Some([return_code |-> return_code, log_tail |-> log_tail])
    ELSE prev

\* last_error = (return_code, log_tail)
NextLastError(prev, return_code, log_tail) ==
    Some([return_code |-> return_code, log_tail |-> log_tail])

\* A mutant: the manifest is left in place.
UnlinkKept(file) == file

\* finally: Path(concat_file).unlink(missing_ok=True)
Unlink(file) == None

\* A mutant: the interrupt is swallowed and the child's status returned.
OnInterruptSwallowed ==
    [terminated |-> TRUE, waited |-> TRUE, reraised |-> FALSE, return_code |-> -15]

\* except KeyboardInterrupt: proc.terminate(); proc.wait(); raise
OnInterrupt ==
    [terminated |-> TRUE, waited |-> TRUE, reraised |-> TRUE, return_code |-> -15]

\* What the ffmpeg child leaves at the output path, which -y lets it overwrite:
\* the finished file when it exits 0; else a truncated file when it had begun
\* to encode (it reported progress), and what was there when it had not.
OutputAfter(before, succeeded, lines) ==
    IF succeeded THEN "merged"
    ELSE IF lines # << >> THEN "partial"
    ELSE before

\* What main does after the loop and the finally block: it raises, with the
\* last failure when there is one.
AfterLoop(err) ==
    IF err = None
    THEN Raised("RuntimeError", "ffmpeg exited unexpectedly without reporting an error.")
    ELSE RaisedEncodeFailed(err[1])

\* One encode attempt: build_ffmpeg_command, run_ffmpeg and what main does with
\* the outcome, the finally block included when the attempt leaves the loop.
Attempt ==
    /\ pc = "encoding"
    /\ UNCHANGED << guiVars, rotVars, runVars, buildVars >>
    /\ UNCHANGED << args, path_missing, input_is_dir, folder, startup, output_dir_made,
                    videos, probed, reference, uniform_resolution, target_resolution,
                    manifest_made, codecs_to_try >>
    /\ LET codec_name == codecs_to_try[codec_index + 1]
           preset == resolve_preset(codec_name, args.preset)
           scale_modes == ScaleModes(codec_name, target_resolution)
           use_cuda_scale == scale_modes[scale_pos]
           output_path == derive_output_path(args.input_folder, args.output_folder)
           cmd == build_ffmpeg_command("concat_file", output_path, codec_name, preset,
                                       target_resolution, use_cuda_scale)
           Ran(how, rc, lines, terminated, waited) ==
               [codec_index |-> codec_index, codec |-> codec_name,
                use_cuda_scale |-> use_cuda_scale, preset |-> preset,
                resolution |-> target_resolution, cmd |-> cmd, how |-> how, rc |-> rc,
                lines |-> lines, terminated |-> terminated, waited |-> waited]
           \* run_ffmpeg returned (rc, tail)
           RunReturned(how, rc, lines, terminated) ==
               /\ attempts' = Append(attempts, Ran(how, Some(rc), lines, terminated, TRUE))
               /\ output_file' = OutputAfter(output_file, rc = 0, lines)
               /\ IF Succeeded(rc)
                  THEN /\ manifest' = Unlink(manifest)
                       /\ result' = Returned("Merged video written")
                       /\ pc' = "done"
                       /\ UNCHANGED << last_error, codec_index, scale_pos >>
                  ELSE /\ last_error' = NextLastError(last_error, rc, LogTail(lines))
                       /\ IF scale_pos < Len(scale_modes)
                          THEN /\ scale_pos' = scale_pos + 1
                               /\ UNCHANGED << codec_index, manifest, result, pc >>
                          ELSE IF codec_index < Len(codecs_to_try) - 1
                          THEN /\ codec_index' = codec_index + 1
                               /\ scale_pos' = 1
                               /\ UNCHANGED << manifest, result, pc >>
                          ELSE /\ manifest' = Unlink(manifest)
                               /\ result' = AfterLoop(last_error')
                               /\ pc' = "done"
                               /\ UNCHANGED << codec_index, scale_pos >>
       IN
        \/ \E rc \in ExitCodes, lines \in OutputLines :
            RunReturned("exit", rc, lines, FALSE)
        \/ \* subprocess.Popen raised: the executable cannot be started
           /\ attempts' = Append(attempts, Ran("oserror", None, << >>, FALSE, FALSE))
           /\ manifest' = Unlink(manifest)
           /\ result' = Raised("OSError", "ffmpeg could not be started")
           /\ pc' = "done"
           /\ UNCHANGED << output_file, last_error, codec_index, scale_pos >>
        \/ \E lines \in OutputLines :
            \* KeyboardInterrupt while the output is streamed
            LET handled == OnInterrupt
            IN  IF handled.reraised
                THEN /\ attempts' = Append(attempts, Ran("interrupt", None, lines,
                                                         handled.terminated, handled.waited))
                     /\ output_file' = OutputAfter(output_file, FALSE, lines)
                     /\ manifest' = Unlink(manifest)
                     /\ result' = Raised("KeyboardInterrupt", "")
                     /\ pc' = "done"
                     /\ UNCHANGED << last_error, codec_index, scale_pos >>
                ELSE RunReturned("interrupt", handled.return_code, lines, handled.terminated)

Next == Start \/ Probe \/ Attempt

Spec == Init /\ [][Next]_vars

(***************************************************************************)
(* find_numbered_videos on its own, over a wider choice of folders.         *)
(***************************************************************************)
InitScan ==
    /\ GuiIdle /\ RotIdle /\ RunIdle /\ BuildIdle
    /\ pc = "scan"
    /\ args = [input_folder |-> << "shoot", << "d", "a", "y", "1" >> >>,
               output_folder |-> << "out" >>, codec |-> h264_nvenc,
               fallback_codec |-> libx264, resolution |-> << >>, preset |-> None]
    /\ path_missing = {}
    /\ input_is_dir = TRUE
    /\ folder \in Folders(ScanPool, MaxScanFiles)
    /\ output_file = "absent"
    /\ Blank

Scan ==
    /\ pc = "scan"
    /\ UNCHANGED << guiVars, rotVars, runVars, buildVars >>
    /\ videos' = find_numbered_videos(folder)
    /\ pc' = "scanned"
    /\ UNCHANGED << args, path_missing, input_is_dir, folder, output_file, startup,
                    output_dir_made, probed, reference, uniform_resolution,
                    target_resolution, manifest, manifest_made, codecs_to_try,
                    codec_index, scale_pos, attempts, last_error, result >>

NextScan == Scan

SpecScan == InitScan /\ [][NextScan]_vars

(***************************************************************************)
(* The GUI (main.py): the three tabs of MainWindow, each a                  *)
(* BaseProcessingTab with its own worker, and FolderProcessingWorker.run.    *)
(* A signal is a tuple that starts with the signal's name.  The slots of a   *)
(* tab run on the GUI thread, in the order the worker emitted the signals.   *)
(***************************************************************************)
\* MainWindow.__init__: the tabs added to the QTabWidget.
Tabs == { "ImagesToVideoTab", "MergeVideosTab", "RotateVideosTab" }

\* What selected_folders() can return when Run is clicked.
Selections == { << >>, << "a" >>, << "b", "a" >> }

\* How one call of the task can end: it returns, it raises an Exception (a
\* RuntimeError of the tool), or it raises SystemExit (argparse rejecting the
\* arguments built from the fields of the tab).
TaskOutcomes == { "return", "Exception", "SystemExit" }

\* BaseProcessingTab.__init__, and no worker yet.
NewTab ==
    [enabled |-> TRUE, worker |-> None, worker_thread |-> None,
     folders |-> << >>, run_state |-> "none", index |-> 0, invoked |-> << >>,
     failed |-> None, emitted |-> << >>, handled |-> 0, error_shown |-> FALSE]

InitGui ==
    /\ MainIdle /\ RotIdle /\ RunIdle /\ BuildIdle
    /\ tabs = [t \in Tabs |-> NewTab]
    /\ app_running = TRUE

\* widget.setEnabled(not running) for the widgets of the tab
set_running(tab, running) == [tab EXCEPT !.enabled = ~running]

\* The tab after start_worker: a new worker and thread, the controls disabled,
\* the thread started.
start_worker(tab, selected) ==
    [set_running(tab, TRUE) EXCEPT
        !.worker = Some("FolderProcessingWorker"), !.worker_thread = Some("QThread"),
        !.folders = selected, !.run_state = "started", !.index = 0,
        !.invoked = << >>, !.failed = None, !.emitted = << >>, !.handled = 0,
        !.error_shown = FALSE]

\* The tab after on_worker_finished.
on_worker_finished(tab) ==
    [set_running(tab, FALSE) EXCEPT !.worker_thread = None, !.worker = None]

\* A click on the Run button of a tab: run_processing.  A disabled button
\* takes no click.
RunClicked(t) ==
    /\ app_running
    /\ tabs[t].enabled
    /\ UNCHANGED << mainVars, rotVars, runVars, buildVars, app_running >>
    /\ \E selected \in Selections :
        IF selected = << >>
        THEN UNCHANGED tabs      \* "Add at least one input folder."
        ELSE tabs' = [tabs EXCEPT ![t] = start_worker(tabs[t], selected)]

\* FolderProcessingWorker.run from the head of the loop to the call of the
\* task, or to its end when the folders are exhausted.
WorkerLoop(t) ==
    /\ app_running
    /\ tabs[t].run_state = "started"
    /\ UNCHANGED << mainVars, rotVars, runVars, buildVars, app_running >>
    /\ LET w == tabs[t]
           total == Len(w.folders)
       IN  IF w.index < total
           THEN LET this_folder == w.folders[w.index + 1]
                IN  tabs' = [tabs EXCEPT ![t] =
                        [w EXCEPT !.emitted = Append(@, << "status", "Processing", this_folder >>),
                                  !.invoked = Append(@, this_folder),
                                  !.run_state = "in_task"]]
           ELSE tabs' = [tabs EXCEPT ![t] =
                        [w EXCEPT !.emitted = @ \o << << "status", "All folders processed" >>,
                                                      << "finished" >> >>,
                                  !.run_state = "returned"]]

\* What run does when the task ends: the except clause catches Exception.
Caught(outcome) == outcome = "Exception"

\* The task called by run ends.  A SystemExit is not an Exception: it leaves
\* run, and the interpreter either reports it and goes on or ends the process.
TaskEnds(t) ==
    /\ app_running
    /\ tabs[t].run_state = "in_task"
    /\ UNCHANGED << mainVars, rotVars, runVars, buildVars >>
    /\ LET w == tabs[t]
           total == Len(w.folders)
       IN  \E outcome \in TaskOutcomes, exits \in BOOLEAN :
            IF outcome = "return"
            THEN /\ tabs' = [tabs EXCEPT ![t] =
                        [w EXCEPT !.emitted = Append(@, << "progress", w.index + 1, total >>),
                                  !.index = @ + 1,
                                  !.run_state = "started"]]
                 /\ UNCHANGED app_running
            ELSE IF Caught(outcome)
            THEN /\ tabs' = [tabs EXCEPT ![t] =
                        [w EXCEPT !.emitted = @ \o << << "error", outcome >>, << "finished" >> >>,
                                  !.failed = Some(outcome),
                                  !.run_state = "returned"]]
                 /\ UNCHANGED app_running
            ELSE /\ tabs' = [tabs EXCEPT ![t] =
                        [w EXCEPT !.failed = Some(outcome), !.run_state = "escaped"]]
                 /\ app_running' = ~exits

\* The GUI thread runs the slots connected to the next signal of the worker of
\* a tab: on_worker_progress, showMessage, on_worker_error, on_worker_finished.
Deliver(t) ==
    /\ app_running
    /\ tabs[t].handled < Len(tabs[t].emitted)
    /\ UNCHANGED << mainVars, rotVars, runVars, buildVars, app_running >>
    /\ LET w == tabs[t]
           signal == w.emitted[w.handled + 1]
           seen == [w EXCEPT !.handled = @ + 1]
       IN  tabs' = [tabs EXCEPT ![t] =
                IF signal[1] = "error" THEN [seen EXCEPT !.error_shown = TRUE]
                ELSE IF signal[1] = "finished" THEN on_worker_finished(seen)
                ELSE seen]

NextGui == \E t \in Tabs : RunClicked(t) \/ WorkerLoop(t) \/ TaskEnds(t) \/ Deliver(t)

SpecGui == InitGui /\ [][NextGui]_vars

(***************************************************************************)
(* rotate_vid.main and aspect_ratio.main, which differ in the encode call   *)
(* and in the name of the temp file.  A path is [dir, name]; files maps the  *)
(* paths that exist to what they hold: [from, state], the video the content  *)
(* comes from and "original", "partial" (being written, or left truncated)   *)
(* or "done" (the finished output of ffmpeg).                                *)
(***************************************************************************)
Path(dir, name) == [dir |-> dir, name |-> name]

\* Entries of the input folder "in": "a.ts", "b.mts", "e.txt"; and a video
\* elsewhere, "other/c.ts".
RotPool ==
    { File(<< "a", ".", "t", "s" >>),
      File(<< "b", ".", "m", "t", "s" >>),
      File(<< "e", ".", "t", "x", "t" >>) }
OtherVideo == Path("other", << "c", ".", "t", "s" >>)

\* --video-file values: none, a video of the input folder, or a video from
\* elsewhere followed by one of the input folder.
VideoFileArgs ==
    { << >>,
      << Path("in", << "b", ".", "m", "t", "s" >>) >>,
      << OtherVideo, Path("in", << "a", ".", "t", "s" >>) >> }

RotArgSets ==
    [ tool : { "rotate_vid", "aspect_ratio" },
      input_folder : { None, Some("in") },
      entries : SUBSET RotPool,
      video_files : VideoFileArgs,
      output_dir : { None, Some("out"), Some("in") } ]

\* The members of VIDEO_EXTENSIONS the names of the model can have.
ROT_VIDEO_EXTENSIONS == { << ".", "t", "s" >>, << ".", "m", "t", "s" >> }

Original(p) == [from |-> p, state |-> "original"]

InitRotate ==
    /\ MainIdle /\ GuiIdle /\ RunIdle /\ BuildIdle
    /\ rot_pc = "start"
    /\ rot_args \in RotArgSets
    /\ rot_videos = << >>
    /\ rot_index = 0
    /\ rot_started = << >>
    /\ files = [p \in { Path("in", e.name) : e \in rot_args.entries } \cup { OtherVideo }
                  |-> Original(p)]
    /\ rot_result = None

\* iter_video_files: sorted(folder.iterdir()), files with a video suffix.
iter_video_files(dir, entries) ==
    LET kept == SelectSeq(SortedEntries(entries),
                          LAMBDA e : e.is_file /\ Lower(Suffix(e.name)) \in ROT_VIDEO_EXTENSIONS)
    IN  [i \in 1..Len(kept) |-> Path(dir, kept[i].name)]

\* A mutant: a path listed twice is kept twice.
DeduplicateNone(paths, seen) == paths

\* The loop over folder_videos + direct_videos with the set seen.
RECURSIVE Deduplicate(_, _)
Deduplicate(paths, seen) ==
    IF paths = << >> THEN << >>
    ELSE IF Head(paths) \in seen THEN Deduplicate(Tail(paths), seen)
    ELSE << Head(paths) >> \o Deduplicate(Tail(paths), seen \cup { Head(paths) })

derive_target_path(src, output_dir) ==
    IF output_dir = None THEN src ELSE Path(output_dir[1], src.name)

\* ".rotating" in rotate_vid, ".processing" in aspect_ratio
TempTag(tool) ==
    IF tool = "rotate_vid"
    THEN << ".", "r", "o", "t", "a", "t", "i", "n", "g" >>
    ELSE << ".", "p", "r", "o", "c", "e", "s", "s", "i", "n", "g" >>

\* A mutant: the temp file is the original.
derive_temp_path_same(tool, original) == original

\* original.with_name(f"{original.stem}.rotating{original.suffix}")
derive_temp_path(tool, original) ==
    [original EXCEPT !.name = Stem(@) \o TempTag(tool) \o Suffix(@)]

\* temp_target of the loop of main
TempTarget(tool, video, output_dir) ==
    LET final_target == derive_target_path(video, output_dir)
    IN  IF final_target = video THEN derive_temp_path(tool, video) ELSE final_target

WriteFile(fs, p, content) ==
    [q \in DOMAIN fs \cup { p } |-> IF q = p THEN content ELSE fs[q]]

\* unlink(missing_ok=True)
UnlinkFile(fs, p) == [q \in DOMAIN fs \ { p } |-> fs[q]]

\* temp.replace(final)
ReplaceFile(fs, temp, final) == WriteFile(UnlinkFile(fs, temp), final, fs[temp])

\* main up to the loop over videos.
RotStart ==
    /\ rot_pc = "start"
    /\ UNCHANGED << mainVars, guiVars, runVars, buildVars, rot_args, rot_index, rot_started, files >>
    /\ LET folder_videos ==
               IF rot_args.input_folder # None
               THEN iter_video_files(rot_args.input_folder[1], rot_args.entries)
               ELSE << >>
           direct_videos == rot_args.video_files
           listed == Deduplicate(folder_videos \o direct_videos, {})
       IN  IF rot_args.input_folder = None /\ rot_args.video_files = << >>
           THEN /\ rot_result' = Raised("FileNotFoundError",
                                        "Provide an input folder, at least one --video-file, or both.")
                /\ rot_pc' = "done"
                /\ UNCHANGED rot_videos
           ELSE IF \E i \in 1..Len(direct_videos) : direct_videos[i] \notin DOMAIN files
           THEN /\ rot_result' = Raised("FileNotFoundError", "Video file does not exist or is not a file.")
                /\ rot_pc' = "done"
                /\ UNCHANGED rot_videos
           ELSE IF listed = << >>
           THEN /\ rot_result' = Raised("FileNotFoundError", "No video files were found.")
                /\ rot_pc' = "done"
                /\ UNCHANGED rot_videos
           ELSE /\ rot_videos' = listed
                /\ rot_pc' = "loop"
                /\ UNCHANGED rot_result

\* The loop reaches a video: rotate_video starts ffmpeg, which may open its
\* output (-y: created or truncated) before it does anything else.
RotFfmpegStarts ==
    /\ rot_pc = "loop"
    /\ UNCHANGED << mainVars, guiVars, runVars, buildVars, rot_args, rot_videos, rot_index, rot_result >>
    /\ LET video == rot_videos[rot_index + 1]
           temp_target == TempTarget(rot_args.tool, video, rot_args.output_dir)
       IN  \E opened \in BOOLEAN :
            /\ files' = IF opened
                        THEN WriteFile(files, temp_target, [from |-> video, state |-> "partial"])
                        ELSE files
            /\ rot_started' = Append(rot_started, video)
            /\ rot_pc' = "ffmpeg"

\* ffmpeg ends, and main goes on to the next video or ends.
RotFfmpegEnds ==
    /\ rot_pc = "ffmpeg"
    /\ UNCHANGED << mainVars, guiVars, runVars, buildVars, rot_args, rot_videos, rot_started >>
    /\ LET video == rot_videos[rot_index + 1]
           final_target == derive_target_path(video, rot_args.output_dir)
           temp_target == TempTarget(rot_args.tool, video, rot_args.output_dir)
           written == WriteFile(files, temp_target, [from |-> video, state |-> "done"])
       IN
        \/ \* returncode 0
           /\ files' = IF temp_target # final_target
                       THEN ReplaceFile(written, temp_target, final_target)
                       ELSE written
           /\ rot_index' = rot_index + 1
           /\ IF rot_index' = Len(rot_videos)
              THEN /\ rot_result' = Returned("Successfully processed")
                   /\ rot_pc' = "done"
              ELSE /\ rot_pc' = "loop"
                   /\ UNCHANGED rot_result
        \/ \* returncode != 0: dst.unlink(missing_ok=True); raise RuntimeError
           /\ files' = UnlinkFile(files, temp_target)
           /\ rot_result' = Raised("RuntimeError", "ffmpeg failed")
           /\ rot_pc' = "done"
           /\ UNCHANGED rot_index
        \/ \* KeyboardInterrupt in subprocess.run: the child is killed, nothing is removed
           /\ rot_result' = Raised("KeyboardInterrupt", "")
           /\ rot_pc' = "done"
           /\ UNCHANGED << files, rot_index >>

NextRotate == RotStart \/ RotFfmpegStarts \/ RotFfmpegEnds

SpecRotate == InitRotate /\ [][NextRotate]_vars

(***************************************************************************)
(* run_ffmpeg on its own, line by line.  A raw line is [text, ending]: the   *)
(* text without its line end, and the line end ("\n", or "" for a last line  *)
(* that the child did not terminate).                                        *)
(***************************************************************************)
\* The i-th line of the child, each line with a text of its own.
RawLine(i, ending) == [text |-> i, ending |-> ending]

\* What the child writes: n lines, the last one with or without a line end.
ChildOutput(n, terminated) ==
    [i \in 1..n |-> RawLine(i, IF i = n /\ ~terminated THEN "" ELSE "\n")]

Children ==
    { [lines |-> ChildOutput(n, terminated), rc |-> rc] :
        n \in 0..MaxLines, terminated \in BOOLEAN, rc \in ExitCodes }

\* raw_line.rstrip("\r\n")
Rstrip(raw_line) == raw_line.text

\* A mutant: a deque without maxlen.
DequeAppendUnbounded(deque, maxlen, x) == Append(deque, x)

\* deque(maxlen=...).append(x)
DequeAppend(deque, maxlen, x) ==
    IF Len(deque) = maxlen THEN Append(Tail(deque), x) ELSE Append(deque, x)

InitRun ==
    /\ MainIdle /\ GuiIdle /\ RotIdle /\ BuildIdle
    /\ run_pc = "popen"
    /\ child \in Children
    /\ lines_read = 0
    /\ run_log_tail = << >>
    /\ stdout = [written |-> << >>, flushed |-> 0]
    /\ run_result = None

\* log_tail = deque(maxlen=FFMPEG_LOG_TAIL_LINES); subprocess.Popen(...)
RunPopen ==
    /\ run_pc = "popen"
    /\ run_pc' = "reading"
    /\ UNCHANGED << mainVars, guiVars, rotVars, buildVars, child, lines_read, run_log_tail,
                    stdout, run_result >>

\* for raw_line in stdout: the next line arrives
RunReadLine ==
    /\ run_pc = "reading"
    /\ lines_read < Len(child.lines)
    /\ lines_read' = lines_read + 1
    /\ run_pc' = "write"
    /\ UNCHANGED << mainVars, guiVars, rotVars, buildVars, child, run_log_tail, stdout, run_result >>

\* sys.stdout.write(raw_line)
RunWrite ==
    /\ run_pc = "write"
    /\ stdout' = [stdout EXCEPT !.written = Append(@, child.lines[lines_read])]
    /\ run_pc' = "flush"
    /\ UNCHANGED << mainVars, guiVars, rotVars, buildVars, child, lines_read, run_log_tail, run_result >>

\* sys.stdout.flush()
RunFlush ==
    /\ run_pc = "flush"
    /\ stdout' = [stdout EXCEPT !.flushed = Len(stdout.written)]
    /\ run_pc' = "append"
    /\ UNCHANGED << mainVars, guiVars, rotVars, buildVars, child, lines_read, run_log_tail, run_result >>

\* log_tail.append(raw_line.rstrip("\r\n"))
RunAppend ==
    /\ run_pc = "append"
    /\ run_log_tail' = DequeAppend(run_log_tail, FFMPEG_LOG_TAIL_LINES,
                                   Rstrip(child.lines[lines_read]))
    /\ run_pc' = "reading"
    /\ UNCHANGED << mainVars, guiVars, rotVars, buildVars, child, lines_read, stdout, run_result >>

\* The output ends: proc.wait(), the closing line end, the return.
RunReturn ==
    /\ run_pc = "reading"
    /\ lines_read = Len(child.lines)
    /\ LET printed == lines_read > 0
           last_char == IF printed THEN child.lines[lines_read].ending ELSE "\n"
       IN  stdout' = IF printed /\ last_char \notin { "\n", "\r" }
                     THEN [written |-> Append(stdout.written, RawLine(0, "\n")),
                           flushed |-> Len(stdout.written) + 1]
                     ELSE stdout
    /\ run_result' = Some([kind |-> "return", return_code |-> child.rc,
                           log_tail |-> run_log_tail])
    /\ run_pc' = "returned"
    /\ UNCHANGED << mainVars, guiVars, rotVars, buildVars, child, lines_read, run_log_tail >>

\* KeyboardInterrupt while waiting for a line: terminate, wait, raise.
RunInterrupted ==
    /\ run_pc = "reading"
    /\ run_result' = Some([kind |-> "raise", return_code |-> OnInterrupt.return_code,
                           log_tail |-> << >>])
    /\ run_pc' = "returned"
    /\ UNCHANGED << mainVars, guiVars, rotVars, buildVars, child, lines_read, run_log_tail, stdout >>

NextRun ==
    RunPopen \/ RunReadLine \/ RunWrite \/ RunFlush \/ RunAppend \/ RunReturn
    \/ RunInterrupted

SpecRun == InitRun /\ [][NextRun]_vars

(***************************************************************************)
(* resolve_preset and build_ffmpeg_command on their own, over every          *)
(* combination of codec, preset, target resolution and scaling mode.         *)
(***************************************************************************)
\* codec: a hardware codec, an upper-case hardware codec, a software codec.
\* explicit: no --preset, an empty one, "slow".
\* resolution: None, 1920x1080, 2x1.
BuildArgSets ==
    [ codec : { h264_nvenc, HEVC_NVENC, libx264 },
      explicit : { None, Some(""), Some("slow") },
      resolution : { None, Some(<< 1920, 1080 >>), Some(<< 2, 1 >>) },
      use_cuda_scale : BOOLEAN ]

InitBuild ==
    /\ MainIdle /\ GuiIdle /\ RotIdle /\ RunIdle
    /\ build_pc = "args"
    /\ build_args \in BuildArgSets
    /\ build_preset = None
    /\ build_cmd = << >>

\* preset = resolve_preset(codec_name, args.preset)
BuildPreset ==
    /\ build_pc = "args"
    /\ build_preset' = resolve_preset(build_args.codec, build_args.explicit)
    /\ build_pc' = "preset"
    /\ UNCHANGED << mainVars, guiVars, rotVars, runVars, build_args, build_cmd >>

\* cmd = build_ffmpeg_command(...)
BuildCommand ==
    /\ build_pc = "preset"
    /\ build_cmd' = build_ffmpeg_command("concat_file",
                        derive_output_path(<< "shoot", << "d", "a", "y", "1" >> >>, << "out" >>),
                        build_args.codec, build_preset, build_args.resolution,
                        build_args.use_cuda_scale)
    /\ build_pc' = "built"
    /\ UNCHANGED << mainVars, guiVars, rotVars, runVars, build_args, build_preset >>

NextBuild == BuildPreset \/ BuildCommand

SpecBuild == InitBuild /\ [][NextBuild]_vars

(***************************************************************************)
(* Properties of the encode loop.                                           *)
(***************************************************************************)
IsPrefix(s, t) == Len(s) <= Len(t) /\ SubSeq(t, 1, Len(s)) = s

LastAttempt == attempts[Len(attempts)]

\* The attempt ended with ffmpeg exiting 0.
ExitedZero(a) == a.how = "exit" /\ a.rc = Some(0)
\* The attempt ended with ffmpeg exiting non-zero.
ExitedNonZero(a) == a.how = "exit" /\ a.rc # Some(0)

MergedResult == result # None /\ result[1].kind = "return" /\ result[1].msg = "Merged video written"
EncodeFailedResult ==
    result # None /\ result[1].kind = "raise" /\ result[1].msg = "ffmpeg failed with exit code"

\* The classification of the argument values of the model, as the documentation
\* of the options gives it: which codecs are hardware codecs, which
\* --fallback-codec values disable the fallback.
HardwareCodecs == { h264_nvenc, HEVC_NVENC }
DisablingFallbacks == { << " ", "N", "o", "n", "e" >>, << >> }

PriorityCodecs ==
    IF args.fallback_codec \notin DisablingFallbacks /\ args.fallback_codec # args.codec
    THEN << args.codec, args.fallback_codec >>
    ELSE << args.codec >>

PriorityModes(codec) ==
    IF codec \in HardwareCodecs /\ target_resolution # None
    THEN << [codec |-> codec, use_cuda_scale |-> TRUE],
            [codec |-> codec, use_cuda_scale |-> FALSE] >>
    ELSE << [codec |-> codec, use_cuda_scale |-> FALSE] >>

\* The priority-ordered candidate list: codecs outermost, scaling modes within.
PriorityCandidates ==
    IF Len(PriorityCodecs) = 1
    THEN PriorityModes(PriorityCodecs[1])
    ELSE PriorityModes(PriorityCodecs[1]) \o PriorityModes(PriorityCodecs[2])

\* The candidates of the attempts made so far.
Attempted ==
    [i \in 1..Len(attempts) |->
        [codec |-> attempts[i].codec, use_cuda_scale |-> attempts[i].use_cuda_scale]]

\* Attempt a comes before attempt b in priority: an earlier codec, or the same
\* codec with hardware scaling before software scaling.
Before(a, b) ==
    \/ a.codec_index < b.codec_index
    \/ a.codec_index = b.codec_index /\ a.use_cuda_scale /\ ~b.use_cuda_scale

\* C1: the attempts are made in strictly increasing priority order (primary
\* codec before fallback, hardware scaling before software scaling), every
\* attempt but the last ended with a non-zero exit, so nothing runs after an
\* attempt that exited 0, and main returns 0 with the merged video exactly
\* when the last attempt exited 0.
C1_InOrderStopAtFirstSuccess ==
    /\ \A i \in 1..Len(attempts) : \A j \in 1..Len(attempts) :
            i < j => Before(attempts[i], attempts[j])
    /\ \A i \in 1..Len(attempts) :
            attempts[i].codec =
                (IF attempts[i].codec_index = 0 THEN args.codec ELSE args.fallback_codec)
    /\ \A i \in 1..(Len(attempts) - 1) : ExitedNonZero(attempts[i])
    /\ MergedResult <=> (attempts # << >> /\ ExitedZero(LastAttempt))
    /\ MergedResult => pc = "done" /\ result[1].return_code = 0

\* C1 witness: the third attempt exits 0 after a failure with a negative exit
\* status, and main has returned.
C1_Witness ==
    /\ pc = "done"
    /\ MergedResult
    /\ Len(attempts) = 3
    /\ attempts[2].rc = Some(-9)
    /\ ExitedZero(LastAttempt)

\* C2: the candidates attempted are always a prefix of the priority list built
\* from [primary, fallback unless disabled or equal to the primary] and
\* [hardware, software] for a hardware codec with a target resolution, else
\* [software]; the whole list when the run fails by exhaustion; hardware
\* scaling is never used with a codec that is not a hardware codec.
C2_CandidateList ==
    /\ IsPrefix(Attempted, PriorityCandidates)
    /\ EncodeFailedResult => Attempted = PriorityCandidates
    /\ \A i \in 1..Len(attempts) :
            attempts[i].use_cuda_scale => attempts[i].codec \in HardwareCodecs

\* C2 witness: an upper-case hardware fallback distinct from the hardware
\* primary, all four candidates attempted.
C2_Witness ==
    /\ EncodeFailedResult
    /\ args.fallback_codec = HEVC_NVENC
    /\ Len(attempts) = 4

\* C3: a run that fails by exhaustion has made exactly one attempt per
\* candidate, in priority order, each exiting non-zero, and the failure carries
\* the exit code and the log tail of the last attempt; and once every candidate
\* has exited non-zero the run has failed that way.
C3_ExhaustionCarriesLast ==
    /\ EncodeFailedResult =>
        /\ Attempted = PriorityCandidates
        /\ \A i \in 1..Len(attempts) : ExitedNonZero(attempts[i])
        /\ Some(result[1].return_code) = LastAttempt.rc
        /\ result[1].log_tail = LogTail(LastAttempt.lines)
    /\ (/\ Len(attempts) = Len(PriorityCandidates)
        /\ attempts # << >>
        /\ pc # "start" /\ pc # "probing"
        /\ ExitedNonZero(LastAttempt)) => EncodeFailedResult

\* C3 witness: exhaustion where the first attempt differs from the last in its
\* exit code and in its output.
C3_Witness ==
    /\ EncodeFailedResult
    /\ Len(attempts) >= 2
    /\ attempts[1].rc # LastAttempt.rc
    /\ attempts[1].lines # LastAttempt.lines

\* C4: when main has returned or raised after build_concat_file returned
\* (success, exhaustion, an exception or an interrupt in an attempt), the
\* manifest temp file does not exist.
C4_ManifestRemoved ==
    (pc = "done" /\ manifest_made) => manifest = None

\* C4 witness: an interrupt during the second attempt, manifest created and gone.
C4_Witness ==
    /\ pc = "done"
    /\ manifest_made
    /\ Len(attempts) = 2
    /\ LastAttempt.how = "interrupt"
    /\ manifest = None

(***************************************************************************)
(* Properties of the catalogue, the manifest and the probes.                *)
(***************************************************************************)
\* How ffmpeg's concat demuxer reads the path of a "file" line: the text after
\* "file ", where '...' quotes literally and \c outside quotes stands for c,
\* up to the first whitespace outside quotes.
RECURSIVE ReadToken(_, _)
ReadToken(s, quoted) ==
    IF s = << >> THEN << >>
    ELSE IF quoted
         THEN IF Head(s) = "'" THEN ReadToken(Tail(s), FALSE)
              ELSE << Head(s) >> \o ReadToken(Tail(s), TRUE)
         ELSE IF Head(s) = "'" THEN ReadToken(Tail(s), TRUE)
              ELSE IF Head(s) = "\\" /\ Len(s) >= 2
                   THEN << s[2] >> \o ReadToken(Tail(Tail(s)), FALSE)
              ELSE IF Head(s) \in Whitespace THEN << >>
              ELSE << Head(s) >> \o ReadToken(Tail(s), FALSE)

\* The path a manifest line names; << >> for a line that is no "file" line.
LinePath(line) ==
    IF Len(line) > 5 /\ SubSeq(line, 1, 5) = << "f", "i", "l", "e", " " >>
    THEN ReadToken(SubSeq(line, 6, Len(line)), FALSE)
    ELSE << >>

NewlineCount(line) == Cardinality({ i \in 1..Len(line) : line[i] = "\n" })

\* C5: while the manifest exists it holds one line per catalogued video, each
\* ending in its only newline, and the paths the lines name are the names of
\* find_numbered_videos(folder), in that order.
C5_ManifestOrder ==
    manifest # None =>
        /\ Len(manifest[1]) = Len(find_numbered_videos(folder))
        /\ \A i \in 1..Len(manifest[1]) :
            /\ NewlineCount(manifest[1][i]) = 1
            /\ manifest[1][i][Len(manifest[1][i])] = "\n"
            /\ LinePath(manifest[1][i]) = find_numbered_videos(folder)[i].name

\* C5 witness: a manifest of three videos, one with a quote in its name, whose
\* catalogue order is not their name order.
C5_Witness ==
    /\ manifest # None
    /\ Len(manifest[1]) = 3
    /\ \E i \in 1..3 : \E k \in 1..Len(videos[i].name) : videos[i].name[k] = "'"
    /\ videos # find_numbered_videos_unsorted(folder)

\* (sequence tag, filename) of a catalogued entry.
SequenceTag(entry) == extract_sequence_number(Stem(entry.name))

\* C6: the result of find_numbered_videos is strictly ascending by (sequence
\* tag, filename), and each of its entries is an entry of the folder that is a
\* regular file, has an extension of the allow-list (case-insensitively) and
\* has a sequence tag.
C6_ScanSortedFiltered ==
    pc = "scanned" =>
        /\ \A i \in 1..Len(videos) : \A j \in 1..Len(videos) :
            i < j =>
                \/ SequenceTag(videos[i])[1] < SequenceTag(videos[j])[1]
                \/ /\ SequenceTag(videos[i])[1] = SequenceTag(videos[j])[1]
                   /\ StrLess(videos[i].name, videos[j].name)
        /\ \A i \in 1..Len(videos) :
            /\ videos[i] \in folder
            /\ videos[i].is_file
            /\ Lower(Suffix(videos[i].name)) \in VIDEO_EXTENSIONS
            /\ SequenceTag(videos[i]) # None

\* C6 witness: a scan that dropped an entry and whose result is not in name order.
C6_Witness ==
    /\ pc = "scanned"
    /\ Len(videos) = 2
    /\ Cardinality(folder) = 3
    /\ videos # find_numbered_videos_unsorted(folder)

\* The scan of main ran and found no numbered video.
ScannedEmpty == output_dir_made /\ find_numbered_videos(folder) = << >>

ProbedValue(i) == probe_video_resolution(probed[i]).value

\* detect_uniform_resolution has returned (main went on to pick the target).
DetectReturned ==
    \/ pc = "encoding"
    \/ manifest_made
    \/ result # None /\ result[1].exc = "ValueError"

\* C8: files are probed in list order, each once; while the loop runs all
\* probed values are equal; the function returns Some(r) exactly when every
\* file of the list was probed and probed to r, and None exactly when the last
\* file probed is the first to differ from the first value (nothing is probed
\* after it).
C8_DetectUniform ==
    /\ Len(probed) <= Len(videos)
    /\ \A i \in 1..Len(probed) : probed[i].video = videos[i]
    /\ pc = "probing" => \A i \in 1..Len(probed) : ProbedValue(i) = ProbedValue(1)
    /\ DetectReturned =>
        /\ probed # << >>
        /\ \A i \in 1..Len(probed) : probe_video_resolution(probed[i]).ok
        /\ \A r \in { ProbedValue(i) : i \in 1..Len(probed) } :
             uniform_resolution = Some(r) <=>
                /\ Len(probed) = Len(videos)
                /\ \A i \in 1..Len(probed) : ProbedValue(i) = r
        /\ uniform_resolution = None <=>
                /\ ProbedValue(Len(probed)) # ProbedValue(1)
                /\ \A i \in 1..(Len(probed) - 1) : ProbedValue(i) = ProbedValue(1)
        /\ uniform_resolution # None => uniform_resolution = Some(ProbedValue(1))

\* C8 witness: three videos, the second differs from the first, the third is
\* never probed.
C8_Witness ==
    /\ DetectReturned
    /\ Len(videos) = 3
    /\ Len(probed) = 2
    /\ uniform_resolution = None

\* The ffprobe outcomes of the model that give a usable resolution: exit 0
\* with "2x1" or "4x3".
UsableProbes ==
    { [rc |-> 0, stdout |-> << "2", "x", "1", "\n" >>],
      [rc |-> 0, stdout |-> << "4", "x", "3", "\n" >>] }

ProbeFailed(i) == [rc |-> probed[i].rc, stdout |-> probed[i].stdout] \notin UsableProbes

\* C9: a failed probe is the last process the run starts: the run is over with
\* a RuntimeError naming the probe failure, the file is not probed again, no
\* manifest was created and no encode attempt was made.
C9_ProbeFailureAborts ==
    \A i \in 1..Len(probed) :
        ProbeFailed(i) =>
            /\ i = Len(probed)
            /\ pc = "done"
            /\ result # None
            /\ result[1].kind = "raise"
            /\ result[1].exc = "RuntimeError"
            /\ result[1].msg \in { "Unable to detect source video resolution via ffprobe",
                                   "ffprobe returned unexpected resolution" }
            /\ \A j \in 1..Len(probed) : probed[j].video = probed[i].video => j = i
            /\ ~manifest_made
            /\ manifest = None
            /\ attempts = << >>

\* C9 witness: the second probe exits 0 with a resolution that is not positive.
C9_Witness ==
    /\ Len(probed) = 2
    /\ ProbeFailed(2)
    /\ probed[2].rc = 0
    /\ pc = "done"

\* The --resolution values of the model that are malformed: "0x1080", "1080".
MalformedResolutions ==
    { << "0", "x", "1", "0", "8", "0" >>, << "1", "0", "8", "0" >> }

\* C10 as stated: in a run with a malformed --resolution and a catalogue that
\* is not empty, no ffprobe and no ffmpeg process is ever started, and the run
\* ends in a ValueError.
C10_MalformedResolutionFailsFast ==
    (args.resolution \in MalformedResolutions /\ videos # << >>) =>
        /\ probed = << >>
        /\ attempts = << >>
        /\ pc = "done" => result[1].kind = "raise" /\ result[1].exc = "ValueError"

(***************************************************************************)
(* Properties of the target resolution and of the encode command.           *)
(***************************************************************************)
\* The default of --resolution, which argparse supplies when the flag is absent.
DefaultResolution == << "1", "9", "2", "0", "x", "1", "0", "8", "0" >>

\* detect_uniform_resolution returned a resolution: every clip probed to it.
ClipsUniform == pc \in { "encoding", "done" } /\ uniform_resolution # None
\* detect_uniform_resolution returned None: a clip differs from the first.
ClipsDiffer == DetectReturned /\ uniform_resolution = None

IsArg(arg, kind, value) == arg[1] = kind /\ arg[2] = value

\* The filter graph passed with -vf, None when the command has no -vf.
FilterGraphOf(cmd) ==
    IF \E i \in 1..(Len(cmd) - 1) : IsArg(cmd[i], "lit", "-vf")
    THEN Some(cmd[(CHOOSE i \in 1..(Len(cmd) - 1) : IsArg(cmd[i], "lit", "-vf")) + 1][2])
    ELSE None

FilterNames(graph) == { graph[i][1] : i \in 1..Len(graph) }

\* The graph has a filter of the given name.
HasFilter(cmd, name) ==
    FilterGraphOf(cmd) # None /\ name \in FilterNames(FilterGraphOf(cmd)[1])

ScaleOrPad == { "scale", "scale_cuda", "pad" }

\* The path the command writes: its last argument.
OutputOf(cmd) == cmd[Len(cmd)][2]

\* "/out/day1.mp4" for the folders of the model.
ExpectedOutputPath ==
    [parent |-> << "out" >>, name |-> << "d", "a", "y", "1", ".", "m", "p", "4" >>]

\* C11 as stated: when every clip probes to the same resolution and
\* --resolution is left at its default, that resolution is detected, no
\* command carries a scale or pad filter, no codec is tried a second time with
\* software scaling, and a first attempt that exits 0 is the only ffmpeg
\* process, run with the primary codec and writing <output>/<input name>.mp4.
C11_UniformNoFilter ==
    (ClipsUniform /\ args.resolution = DefaultResolution) =>
        /\ \A i \in 1..Len(probed) :
              probe_video_resolution(probed[i]) = Ok(uniform_resolution[1])
        /\ \A i \in 1..Len(attempts) :
              /\ \A name \in ScaleOrPad : ~HasFilter(attempts[i].cmd, name)
              /\ \A j \in 1..Len(attempts) :
                    attempts[j].codec_index = attempts[i].codec_index => j = i
        /\ (attempts # << >> /\ ExitedZero(attempts[1])) =>
              /\ Len(attempts) = 1
              /\ attempts[1].codec = args.codec
              /\ OutputOf(attempts[1].cmd) = ExpectedOutputPath

\* The graph scales to width x height, in hardware or in software, and then
\* pads to exactly width x height.
ScalesAndPadsTo(cmd, width, height) ==
    LET graph == FilterGraphOf(cmd)
    IN  /\ graph # None
        /\ \E i \in 1..Len(graph[1]) :
              /\ \/ graph[1][i] = ScaleFilter(width, height)
                 \/ graph[1][i] = ScaleCudaFilter(width, height)
              /\ \E j \in (i + 1)..Len(graph[1]) : graph[1][j] = PadFilter(width, height)

\* C12: when the clips differ in resolution and --resolution is left at its
\* default, the target resolution is 1920x1080 and the command of every encode
\* attempt carries a filter graph that scales and then pads to 1920x1080.
C12_DifferingUsesDefault ==
    (ClipsDiffer /\ args.resolution = DefaultResolution) =>
        /\ target_resolution = Some(<< 1920, 1080 >>)
        /\ \A i \in 1..Len(attempts) :
              /\ attempts[i].resolution = Some(<< 1920, 1080 >>)
              /\ ScalesAndPadsTo(attempts[i].cmd, 1920, 1080)

\* C12 witness: differing clips, the default resolution, a hardware-scaling
\* attempt followed by a software-scaling attempt.
C12_Witness ==
    /\ ClipsDiffer
    /\ args.resolution = DefaultResolution
    /\ Len(attempts) >= 2
    /\ attempts[1].use_cuda_scale
    /\ ~attempts[2].use_cuda_scale
    /\ HasFilter(attempts[1].cmd, "scale_cuda")
    /\ HasFilter(attempts[2].cmd, "scale")

\* C13: when every clip has one resolution the target is that resolution,
\* whatever --resolution holds; when the clips differ the target, once set, is
\* the parsed --resolution; every encode attempt runs with the target.
C13_TargetResolutionSource ==
    /\ ClipsUniform => target_resolution = uniform_resolution
    /\ (ClipsDiffer /\ target_resolution # None) =>
          parse_resolution(args.resolution) = Ok(target_resolution[1])
    /\ \A i \in 1..Len(attempts) : attempts[i].resolution = target_resolution

\* C13 witness: two clips of 4x3, a --resolution of 1920x1080, and an encode
\* attempt made for 4x3.
C13_Witness ==
    /\ ClipsUniform
    /\ Len(probed) = 2
    /\ uniform_resolution = Some(<< 4, 3 >>)
    /\ parse_resolution(args.resolution) = Ok(<< 1920, 1080 >>)
    /\ attempts # << >>
    /\ attempts[1].resolution = Some(<< 4, 3 >>)

(***************************************************************************)
(* Properties of interrupts, of the output file and of the tool check.      *)
(***************************************************************************)
\* C14: an attempt interrupted while its output is streamed is the last
\* attempt of the run: its child was terminated and waited for, and main is
\* over with the KeyboardInterrupt, so neither the software-scaling retry nor
\* the fallback codec is attempted.
C14_InterruptPropagates ==
    \A i \in 1..Len(attempts) :
        attempts[i].how = "interrupt" =>
            /\ attempts[i].terminated
            /\ attempts[i].waited
            /\ i = Len(attempts)
            /\ pc = "done"
            /\ result = Raised("KeyboardInterrupt", "")

\* C14 witness: the first attempt, with hardware scaling and a fallback codec
\* still to come, is interrupted after the child wrote output.
C14_Witness ==
    /\ Len(attempts) = 1
    /\ attempts[1].how = "interrupt"
    /\ attempts[1].lines # << >>
    /\ attempts[1].use_cuda_scale
    /\ Len(codecs_to_try) = 2
    /\ pc = "done"

\* C18 as stated: a merge run that ended because every encode attempt failed
\* leaves no truncated file at the output path, whether or not a file was
\* there before the run.
C18_FailedMergeLeavesNoPartial ==
    (pc = "done" /\ EncodeFailedResult) => output_file # "partial"

\* How often main has called f before probing.
CallCount(f) == Cardinality({ i \in 1..Len(startup) : startup[i] = f })

\* C19: once main has started, ensure_ffmpeg_available has been called exactly
\* once and before anything else; when ffmpeg or ffprobe is not found the run
\* is over with a RuntimeError, and the input folder was not examined, the
\* output folder not created, no file listed and no process started.
C19_ToolCheckFirstAndOnce ==
    pc # "start" =>
        /\ CallCount("ensure_ffmpeg_available") = 1
        /\ startup[1] = "ensure_ffmpeg_available"
        /\ path_missing # {} =>
              /\ pc = "done"
              /\ result = Raised("RuntimeError", "executable(s) not found in PATH")
              /\ startup = << "ensure_ffmpeg_available" >>
              /\ ~output_dir_made
              /\ videos = << >>
              /\ probed = << >>
              /\ attempts = << >>

\* C19 witness: only ffprobe is missing, the input folder exists and holds a
\* clip, and the run is over.
C19_Witness ==
    /\ path_missing = { "ffprobe" }
    /\ input_is_dir
    /\ find_numbered_videos(folder) # << >>
    /\ pc = "done"

(***************************************************************************)
(* Properties of the GUI workers.                                           *)
(***************************************************************************)
\* The worker of the tab has emitted the signal of that name.
Emitted(w, name) == \E i \in 1..Len(w.emitted) : w.emitted[i][1] = name

\* C15 as stated: the worker of a tab invokes the task on a prefix of its
\* folder list, in list order and one folder at a time; once the task has
\* raised, the error signal has been emitted and run is over, so that no
\* later folder is attempted.
C15_WorkerOrderAndAbort ==
    \A t \in Tabs :
        LET w == tabs[t]
        IN  /\ IsPrefix(w.invoked, w.folders)
            /\ Len(w.invoked) = (IF w.run_state = "in_task" THEN w.index + 1 ELSE
                                 IF w.failed # None THEN w.index + 1 ELSE w.index)
            /\ w.failed # None =>
                  /\ Emitted(w, "error")
                  /\ w.run_state = "returned"

\* A worker thread has been started on the tab and its run has not ended.
WorkerActive(t) == tabs[t].run_state \in { "started", "in_task" }

\* C16 as stated: at most one worker is active in the application, and at
\* most one task call (one folder, with the external processes it runs) is in
\* progress.
C16_OneWorkerAtATime ==
    /\ Cardinality({ t \in Tabs : WorkerActive(t) }) <= 1
    /\ Cardinality({ t \in Tabs : tabs[t].run_state = "in_task" }) <= 1

(***************************************************************************)
(* Properties of rotate_vid and aspect_ratio.                                *)
(***************************************************************************)
\* The video is processed in place: its target is its own path.
InPlace(video) == derive_target_path(video, rot_args.output_dir) = video

\* The temp file of a video processed in place.
TempOf(video) == TempTarget(rot_args.tool, video, rot_args.output_dir)

\* C17: for every video processed in place, the temp path differs from the
\* video's path; the path of the video always holds a file that is not
\* partial, the original until ffmpeg has exited 0 for it and the finished
\* output from then on; while ffmpeg runs the original is untouched; after a
\* non-zero exit the temp file is gone and the original is unchanged.
C17_InPlaceNeverPartial ==
    \A i \in 1..Len(rot_videos) :
        LET video == rot_videos[i]
        IN  InPlace(video) =>
              /\ TempOf(video) # video
              /\ video \in DOMAIN files
              /\ files[video].state # "partial"
              /\ files[video] = (IF i <= rot_index
                                 THEN [from |-> video, state |-> "done"]
                                 ELSE Original(video))
              /\ i <= rot_index => TempOf(video) \notin DOMAIN files
              /\ (rot_pc = "done" /\ i = rot_index + 1
                    /\ rot_result = Raised("RuntimeError", "ffmpeg failed")) =>
                    TempOf(video) \notin DOMAIN files

\* C17 witness: the first video was replaced in place, and ffmpeg, having
\* written part of the temp file of the second, exited non-zero.
C17_Witness ==
    /\ rot_pc = "done"
    /\ rot_result = Raised("RuntimeError", "ffmpeg failed")
    /\ rot_index = 1
    /\ InPlace(rot_videos[1])
    /\ InPlace(rot_videos[2])
    /\ files[rot_videos[1]].state = "done"
    /\ files[rot_videos[2]].state = "original"

\* C17 witness of the running child: ffmpeg is writing the temp file of a video
\* processed in place.
C17_WitnessWriting ==
    /\ rot_pc = "ffmpeg"
    /\ InPlace(rot_videos[rot_index + 1])
    /\ TempOf(rot_videos[rot_index + 1]) \in DOMAIN files
    /\ files[TempOf(rot_videos[rot_index + 1])].state = "partial"

(***************************************************************************)
(* Properties of run_ffmpeg.                                                *)
(***************************************************************************)
\* The lines appended to the deque so far.
LinesAppended == IF run_pc \in { "write", "flush", "append" } THEN lines_read - 1 ELSE lines_read

\* The last min(k, FFMPEG_LOG_TAIL_LINES) of the first k lines of the child,
\* without their line ends.
LastOf(k) ==
    LET first == IF k > FFMPEG_LOG_TAIL_LINES THEN k - FFMPEG_LOG_TAIL_LINES + 1 ELSE 1
    IN  [i \in 1..(k - first + 1) |-> child.lines[first + i - 1].text]

\* C20: the deque never holds more than 20 lines and always holds the last
\* min(20, k) of the k lines taken so far, in output order; whenever the next
\* line is about to be read, every line read before is written to stdout and
\* flushed; a call that returns gives the child's exit code and the last
\* min(20, n) of its n lines.
C20_TailAndStreaming ==
    run_pc # "idle" =>
        /\ Len(run_log_tail) <= FFMPEG_LOG_TAIL_LINES
        /\ run_log_tail = LastOf(LinesAppended)
        /\ run_pc = "reading" =>
              /\ SubSeq(stdout.written, 1, lines_read) = SubSeq(child.lines, 1, lines_read)
              /\ stdout.flushed = lines_read
        /\ (run_pc = "returned" /\ run_result[1].kind = "return") =>
              /\ run_result[1].return_code = child.rc
              /\ run_result[1].log_tail = LastOf(Len(child.lines))
              /\ run_result[1].log_tail = LogTail([i \in 1..Len(child.lines) |-> child.lines[i].text])
              /\ stdout.flushed = Len(stdout.written)

\* C20 witness: a child that wrote 22 lines and exited 1; the call returned
\* lines 3 to 22.
C20_Witness ==
    /\ run_pc = "returned"
    /\ run_result[1].kind = "return"
    /\ run_result[1].return_code = 1
    /\ Len(child.lines) = 22
    /\ Len(run_result[1].log_tail) = 20
    /\ run_result[1].log_tail[1] = 3
    /\ run_result[1].log_tail[20] = 22

(***************************************************************************)
(* Properties of the command builder.                                       *)
(***************************************************************************)
\* The positions of a literal argument in a command.
PositionsOf(cmd, literal) == { i \in 1..Len(cmd) : IsArg(cmd[i], "lit", literal) }

\* The value passed with -preset, None when the command has no -preset.
PresetOf(cmd) ==
    IF PositionsOf(cmd, "-preset") = {} THEN None
    ELSE Some(cmd[(CHOOSE i \in PositionsOf(cmd, "-preset") : TRUE) + 1][2])

\* C21: the command of every encode attempt has at most one -preset; with an
\* explicit --preset it carries that value whatever the codec; without one a
\* hardware codec gets p4 and any other codec gets no -preset at all.
C21_PresetPolicy ==
    \A i \in 1..Len(attempts) :
        LET cmd == attempts[i].cmd
        IN  /\ Cardinality(PositionsOf(cmd, "-preset")) <= 1
            /\ PresetOf(cmd) =
                  (IF args.preset # None THEN args.preset
                   ELSE IF attempts[i].codec \in HardwareCodecs THEN Some("p4")
                   ELSE None)

\* C21 witness: no explicit preset; the primary hardware codec ran with p4,
\* the software fallback ran without a -preset.
C21_Witness ==
    /\ args.preset = None
    /\ Len(attempts) = 3
    /\ attempts[1].codec = h264_nvenc
    /\ PresetOf(attempts[1].cmd) = Some("p4")
    /\ attempts[3].codec = libx264
    /\ PresetOf(attempts[3].cmd) = None

\* C22: a command built with resolution None has no -vf argument and no
\* filter graph, hence no scale and no pad filter, for every codec, preset
\* and value of use_cuda_scale.
C22_NoResolutionNoFilter ==
    (build_pc = "built" /\ build_args.resolution = None) =>
        /\ PositionsOf(build_cmd, "-vf") = {}
        /\ \A i \in 1..Len(build_cmd) : build_cmd[i][1] # "filter_graph"
        /\ \A name \in ScaleOrPad : ~HasFilter(build_cmd, name)

\* C22 witness: a command built for a hardware codec with hardware scaling
\* asked for and no resolution.
C22_Witness ==
    /\ build_pc = "built"
    /\ build_args.resolution = None
    /\ build_args.codec = h264_nvenc
    /\ build_args.use_cuda_scale

\* The literal flag followed by the literal value, at a position of the command.
FlagAt(cmd, i, flag, value) ==
    /\ i < Len(cmd)
    /\ IsArg(cmd[i], "lit", flag)
    /\ IsArg(cmd[i + 1], "lit", value)

\* The position of the -i argument.
InputAt(cmd) == CHOOSE i \in PositionsOf(cmd, "-i") : TRUE

\* C23: every command has one -i; a command for a hardware codec has
\* "-hwaccel cuda" once, before -i; "-hwaccel_output_format cuda" is present,
\* once and before -i, exactly when the codec is a hardware codec, hardware
\* scaling is used and there is a target resolution; a command for a software
\* codec has neither flag.
C23_HardwareFlags ==
    build_pc = "built" =>
        LET cmd == build_cmd
            hardware == build_args.codec \in HardwareCodecs
            hw_frames == /\ hardware
                         /\ build_args.use_cuda_scale
                         /\ build_args.resolution # None
        IN  /\ Cardinality(PositionsOf(cmd, "-i")) = 1
            /\ Cardinality(PositionsOf(cmd, "-hwaccel")) = (IF hardware THEN 1 ELSE 0)
            /\ \A i \in PositionsOf(cmd, "-hwaccel") :
                  FlagAt(cmd, i, "-hwaccel", "cuda") /\ i < InputAt(cmd)
            /\ Cardinality(PositionsOf(cmd, "-hwaccel_output_format")) = (IF hw_frames THEN 1 ELSE 0)
            /\ \A i \in PositionsOf(cmd, "-hwaccel_output_format") :
                  FlagAt(cmd, i, "-hwaccel_output_format", "cuda") /\ i < InputAt(cmd)

\* C23 witness: an upper-case hardware codec with hardware scaling to
\* 1920x1080: both flags are in the command.
C23_Witness ==
    /\ build_pc = "built"
    /\ build_args.codec = HEVC_NVENC
    /\ build_args.use_cuda_scale
    /\ build_args.resolution = Some(<< 1920, 1080 >>)
    /\ PositionsOf(build_cmd, "-hwaccel") # {}
    /\ PositionsOf(build_cmd, "-hwaccel_output_format") # {}

(***************************************************************************)
(* Properties of the signals of a worker and of the controls of a tab.      *)
(***************************************************************************)
\* The positions at which the worker emitted the signal of that name.
SignalPositions(w, name) == { i \in 1..Len(w.emitted) : w.emitted[i][1] = name }

\* The progress signals of the worker, in the order emitted.
ProgressSignals(w) == SelectSeq(w.emitted, LAMBDA signal : signal[1] = "progress")

\* run is over: it returned, or an exception left it.
RunOver(w) == w.run_state \in { "returned", "escaped" }

\* C24 as stated: a worker emits finished at most once and as its last
\* signal, error at most once and right before finished, and progress(i, total)
\* for i = 1..k in order, k the number of tasks completed; once run is over,
\* however the task behaved, finished has been emitted exactly once and
\* "All folders processed" has been emitted exactly when no task failed.
C24_SignalProtocol ==
    \A t \in Tabs :
        LET w == tabs[t]
        IN  /\ Cardinality(SignalPositions(w, "finished")) <= 1
            /\ \A i \in SignalPositions(w, "finished") : i = Len(w.emitted)
            /\ Cardinality(SignalPositions(w, "error")) <= 1
            /\ \A i \in SignalPositions(w, "error") :
                  i + 1 \in SignalPositions(w, "finished")
            /\ ProgressSignals(w) =
                  [i \in 1..w.index |-> << "progress", i, Len(w.folders) >>]
            /\ RunOver(w) =>
                  /\ Cardinality(SignalPositions(w, "finished")) = 1
                  /\ (\E i \in 1..Len(w.emitted) :
                          w.emitted[i] = << "status", "All folders processed" >>)
                        <=> w.failed = None

\* Nothing is left to happen for the worker of the tab: run is over and the
\* GUI thread has run the slots of every signal the worker emitted.
WorkerSettled(t) ==
    /\ RunOver(tabs[t])
    /\ tabs[t].handled = Len(tabs[t].emitted)

\* C25 as stated: while a tab has a worker (from start_worker until
\* on_worker_finished has run) its controls are disabled and its Run button
\* takes no click, so no second worker starts from the tab; and once the
\* worker has ended and the window has handled all it emitted, the controls
\* are enabled again and worker and worker_thread are None.
C25_ControlsFollowWorker ==
    \A t \in Tabs :
        LET w == tabs[t]
        IN  /\ w.worker # None =>
                  /\ ~w.enabled
                  /\ w.worker_thread # None
                  /\ ~ENABLED RunClicked(t)
            /\ (app_running /\ WorkerSettled(t)) =>
                  /\ w.enabled
                  /\ w.worker = None
                  /\ w.worker_thread = None

\* A tab whose worker left run by an exception run does not catch stays as it
\* is once its signals are handled: no step changes it.
EscapedTabIsStuck ==
    [][\A t \in Tabs :
          (WorkerSettled(t) /\ tabs[t].run_state = "escaped") => tabs'[t] = tabs[t]]_vars

(***************************************************************************)
(* The number of encode attempts of merge_vid.main.                         *)
(***************************************************************************)
\* The attempts made with the codec at that index of codecs_to_try.
AttemptsWith(i) == { k \in 1..Len(attempts) : attempts[k].codec_index = i }

\* main got to the encode loop: codecs_to_try is assigned right before it.
ReachedEncodeLoop == codecs_to_try # << >>

\* C26: a run that reaches the encode loop tries at most two codecs, each in at
\* most two scaling modes, so it makes at most four attempts, and at least one
\* by the time it ends; while the loop runs fewer than four are made, so a
\* next one is always the fourth at most; and the run never ends with the
\* "ffmpeg exited unexpectedly without reporting an error" failure.
C26_AttemptBounds ==
    /\ Len(codecs_to_try) <= 2
    /\ \A i \in 0..1 : Cardinality(AttemptsWith(i)) <= 2
    /\ \A k \in 1..Len(attempts) : attempts[k].codec_index < Len(codecs_to_try)
    /\ Len(attempts) <= 4
    /\ pc = "encoding" => (ReachedEncodeLoop /\ Len(attempts) < 4)
    /\ (pc = "done" /\ ReachedEncodeLoop) => Len(attempts) >= 1
    /\ result # AfterLoop(None)

\* A run that ended after four failed attempts: two codecs, two modes each.
C26_Witness ==
    /\ pc = "done"
    /\ Len(attempts) = 4
    /\ EncodeFailedResult

(***************************************************************************)
(* The order in which rotate_vid.main processes the videos.                 *)
(***************************************************************************)
\* The videos of the input folder that have a video suffix.
FolderVideoSet ==
    IF rot_args.input_folder = None THEN {}
    ELSE { Path(rot_args.input_folder[1], e.name) :
             e \in { f \in rot_args.entries :
                       f.is_file /\ Lower(Suffix(f.name)) \in ROT_VIDEO_EXTENSIONS } }

\* The --video-file entries, in the order given.
DirectVideos == rot_args.video_files

\* The position of the first entry of a sequence that equals x.
FirstPosition(seq, x) == CHOOSE i \in 1..Len(seq) : seq[i] = x /\ \A j \in 1..(i - 1) : seq[j] # x

\* main got to its loop over videos.
RotLoopReached == rot_videos # << >>

\* The final target of a video holds its finished output.
Rotated(video) ==
    LET final_target == derive_target_path(video, rot_args.output_dir)
    IN  final_target \in DOMAIN files /\ files[final_target] = [from |-> video, state |-> "done"]

\* Nothing was written for the video: its file is the original and, with an
\* output folder, its target does not exist.
Untouched(video) ==
    LET final_target == derive_target_path(video, rot_args.output_dir)
    IN  /\ files[video] = Original(video)
        /\ final_target # video => final_target \notin DOMAIN files

\* C27: the list main processes holds every folder video and every
\* --video-file entry once: the folder videos first, by ascending name, then
\* the --video-file entries not among them, in the order given.  rotate_video
\* is called on the videos of that list in order, once each, all of them when
\* main returns.  When ffmpeg fails for one video main raises, the videos after
\* it are never touched and the videos before it keep their finished output.
C27_OrderOnceNoRollback ==
    RotLoopReached =>
        /\ { rot_videos[i] : i \in 1..Len(rot_videos) }
              = FolderVideoSet \cup { DirectVideos[i] : i \in 1..Len(DirectVideos) }
        /\ \A i, j \in 1..Len(rot_videos) : i < j =>
              /\ rot_videos[i] # rot_videos[j]
              /\ rot_videos[j] \in FolderVideoSet =>
                    /\ rot_videos[i] \in FolderVideoSet
                    /\ StrLess(rot_videos[i].name, rot_videos[j].name)
              /\ (rot_videos[i] \notin FolderVideoSet /\ rot_videos[j] \notin FolderVideoSet) =>
                    FirstPosition(DirectVideos, rot_videos[i])
                        < FirstPosition(DirectVideos, rot_videos[j])
        /\ IsPrefix(rot_started, rot_videos)
        /\ Len(rot_started) = rot_index + (IF rot_pc = "loop" \/ rot_result = Returned("Successfully processed")
                                           THEN 0 ELSE 1)
        /\ rot_result = Returned("Successfully processed") => rot_started = rot_videos
        /\ rot_result = Raised("RuntimeError", "ffmpeg failed") =>
              /\ rot_pc = "done"
              /\ \A i \in 1..rot_index : Rotated(rot_videos[i])
              /\ \A i \in (rot_index + 2)..Len(rot_videos) : Untouched(rot_videos[i])

\* A run over three videos, one of them listed twice, that ended when ffmpeg
\* failed for the second: the first is rotated, the third was never started.
C27_Witness ==
    /\ rot_pc = "done"
    /\ rot_result = Raised("RuntimeError", "ffmpeg failed")
    /\ Len(rot_videos) = 3
    /\ Cardinality(FolderVideoSet) + Len(DirectVideos) = 4
    /\ rot_started = SubSeq(rot_videos, 1, 2)
    /\ Rotated(rot_videos[1])
    /\ Untouched(rot_videos[3])

====
